---- MODULE Spec2Model ----
(***************************************************************************)
(* The reconciliation pipelines of ibc-data-pipelines: the availability    *)
(* encoder, the row validators, the staffing-roster (person) batch loop    *)
(* and the projects batch loop, each run against a transactional store     *)
(* (one pg8000 connection: statements run in one open transaction until    *)
(* conn.commit() or conn.rollback()).                                      *)
(***************************************************************************)
EXTENDS Integers, Sequences, FiniteSets, TLC

VARIABLES
    pipeline,     \* which script runs: "projects", "roster", "encoder", "validator"
    users,        \* users table inside the open transaction: user_id -> row
    consultants,  \* consultants table inside the open transaction: user_id -> row
    projects,     \* projects table inside the open transaction: project_id -> row
    links,        \* consultant_projects inside the open transaction (no key: a sequence)
    committed,    \* the tables as of the last commit
    userSeq,      \* last value handed out by the users.user_id sequence
    projSeq,      \* last value handed out by the projects.project_id sequence
    rowType,      \* sequence type of a fetched row: "list" or "tuple"
    pc,           \* position of the script
    run,          \* number of script runs started
    sheet,        \* sheet_data of the current run
    valid_rows,   \* rows that passed validation, in feed order
    invalid,      \* reasons of the rows that failed validation, in feed order
    done,         \* number of valid rows the row loop has handled in this run
    last,         \* what the row loop did with the row it handled last
    okKeys,       \* natural keys whose row succeeded in this run (history)
    everOk,       \* natural keys whose row ever succeeded (history)
    output        \* what the script printed

vars == <<pipeline, users, consultants, projects, links, committed, userSeq, projSeq,
          rowType, pc, run, sheet, valid_rows, invalid, done, last, okKeys, everOk,
          output>>

storeVars == <<users, consultants, projects, links, committed, userSeq, projSeq>>

-----------------------------------------------------------------------------
(* Python values.  A text is a sequence of one-character strings; a cell   *)
(* of a row or of a table is a tagged value.                               *)

Str(s) == [k |-> "str", s |-> s]
Num(s) == [k |-> "num", s |-> s]
None   == [k |-> "none", s |-> <<>>]
Absent == [k |-> "absent", s |-> <<>>]

\* dict.get(key): a key that is absent reads as None
Get(v) == IF v.k = "absent" THEN None ELSE v

\* key in dict
Has(v) == v.k # "absent"

\* truthiness of a cell value (not x)
Falsy(v) == \/ v.k \in {"none", "absent"}
            \/ v.k = "str" /\ v.s = <<>>
            \/ v.k = "num" /\ v.s = <<"0">>

IsSpace(c) == c \in {" ", "\t"}

RECURSIVE LStrip(_)
LStrip(s) == IF s # <<>> /\ IsSpace(Head(s)) THEN LStrip(Tail(s)) ELSE s

RECURSIVE RStrip(_)
RStrip(s) == IF s # <<>> /\ IsSpace(s[Len(s)]) THEN RStrip(SubSeq(s, 1, Len(s) - 1)) ELSE s

\* str.strip()
Strip(s) == RStrip(LStrip(s))

Upper == <<"A","B","C","D","E","F","G","H","I","J","K","L","M",
           "N","O","P","Q","R","S","T","U","V","W","X","Y","Z">>
LowerLetters == <<"a","b","c","d","e","f","g","h","i","j","k","l","m",
                  "n","o","p","q","r","s","t","u","v","w","x","y","z">>

LowerChar(c) == IF \E i \in 1..26 : Upper[i] = c
                THEN LowerLetters[CHOOSE i \in 1..26 : Upper[i] = c]
                ELSE c

\* str.lower()
Lower(s) == [i \in 1..Len(s) |-> LowerChar(s[i])]

\* str(v).strip() == "" for a cell that is not None
BlankText(v) == v.k = "str" /\ Strip(v.s) = <<>>

\* the test `val is None or (isinstance(val, str) and val.strip() == "")`
Missing(v) == Get(v).k = "none" \/ BlankText(v)

-----------------------------------------------------------------------------
(* Exceptions and the result of a call that touches the store.             *)

NoExc == [type |-> "none", code |-> "", value |-> None, role |-> ""]

\* errors.py: InvalidFormatError carries code E003; `value` is the value its
\* message names
InvalidFormatError(value, role) ==
    [type |-> "InvalidFormatError", code |-> "E003", value |-> value, role |-> role]

\* an exception raised by the driver for a statement the store rejects
DatabaseError(value) ==
    [type |-> "DatabaseError", code |-> "", value |-> value, role |-> ""]

\* errors.py: DataConflictError carries code E001
DataConflictError(value) ==
    [type |-> "DataConflictError", code |-> "E001", value |-> value, role |-> ""]

\* SQL NULL / Python None in an identifier column
NoId == 0 - 1

\* the tables and sequences a cursor sees, with the statements that wrote
Txn == [users |-> users, consultants |-> consultants, projects |-> projects,
        links |-> links, userSeq |-> userSeq, projSeq |-> projSeq, writes |-> <<>>,
        setCols |-> {}]

Ret(t, ret) == [t |-> t, ret |-> ret, exc |-> NoExc]
Raise(t, e) == [t |-> t, ret |-> NoId, exc |-> e]

-----------------------------------------------------------------------------
(* projects-pipeline.py                                                    *)

ProjectKeys == {"project_name", "project_semester", "client_name", "em_netid",
                "sm_netid", "pm_netid", "sc1_netid", "sc2_netid"}

\* the role slots in the order insert_project and update_project resolve them
Slots == << [key |-> "em_netid",  col |-> "em_id",  role |-> "EM"],
            [key |-> "sm_netid",  col |-> "sm_id",  role |-> "SM"],
            [key |-> "pm_netid",  col |-> "pm_id",  role |-> "PM"],
            [key |-> "sc1_netid", col |-> "sc1_id", role |-> "SC"],
            [key |-> "sc2_netid", col |-> "sc2_id", role |-> "SC"] >>

RoleText(role) == CASE role = "EM" -> Str(<<"E", "M">>)
                    [] role = "SM" -> Str(<<"S", "M">>)
                    [] role = "PM" -> Str(<<"P", "M">>)
                    [] role = "SC" -> Str(<<"S", "C">>)
                    [] OTHER       -> Str(<<"N", "C">>)

\* a sheet row keyed by the underscore-style labels (the first candidate of
\* every KEY_MAP entry); a value that is absent, None or blank becomes None
normalize_project_row(row) ==
    [key \in ProjectKeys |->
        IF Has(row[key]) /\ row[key].k # "none" /\ ~BlankText(row[key])
        THEN row[key] ELSE None]

project_row_valid(row) ==
    IF Missing(row["project_name"])
    THEN [ok |-> FALSE, reason |-> "project_name is required"]
    ELSE [ok |-> TRUE, reason |-> ""]

\* SELECT user_id FROM users WHERE netid = %s; fetchone()
get_user_id_by_netid(t, netid) ==
    IF Falsy(netid) \/ netid.k # "str" \/ Strip(netid.s) = <<>>
    THEN NoId
    ELSE LET found == {u \in DOMAIN t.users : t.users[u].netid = netid}
         IN  IF found = {} THEN NoId
             ELSE CHOOSE u \in found : \A w \in found : u <= w

\* update_user_role_if_needed without the comparison: the UPDATE always runs
update_user_role_always(t, user_id, expected_role) ==
    Ret([t EXCEPT !.users[user_id].curr_role = RoleText(expected_role),
                  !.writes = Append(@, "users")], user_id)

update_user_role_if_needed(t, user_id, expected_role) ==
    IF t.users[user_id].curr_role # RoleText(expected_role)
    THEN Ret([t EXCEPT !.users[user_id].curr_role = RoleText(expected_role),
                       !.writes = Append(@, "users")], user_id)
    ELSE Ret(t, user_id)

get_user_id_for_role_by_netid(t, netid, role_code) ==
    IF Falsy(netid) THEN Ret(t, NoId)
    ELSE LET user_id == get_user_id_by_netid(t, netid)
         IN  IF user_id = NoId
             THEN Raise(t, InvalidFormatError(netid, role_code))
             ELSE update_user_role_if_needed(t, user_id, role_code)

\* the five get_user_id_for_role_by_netid calls, in order; the first that
\* raises ends the sequence.  ret is the sequence of resolved identifiers.
RECURSIVE ResolveRoles(_, _, _, _)
ResolveRoles(t, row, i, ids) ==
    IF i > Len(Slots) THEN [t |-> t, ret |-> ids, exc |-> NoExc]
    ELSE LET r == get_user_id_for_role_by_netid(t, row[Slots[i].key], Slots[i].role)
         IN  IF r.exc # NoExc THEN [t |-> r.t, ret |-> ids, exc |-> r.exc]
             ELSE ResolveRoles(r.t, row, i + 1, Append(ids, r.ret))

mark_consultant_returning(t, user_id) ==
    IF user_id = NoId THEN t
    ELSE [t EXCEPT !.consultants =
                      [u \in DOMAIN @ |->
                          IF u = user_id
                          THEN [@[u] EXCEPT !.status = Str(<<"r","e","t","u","r","n","i","n","g">>)]
                          ELSE @[u]],
                   !.writes = Append(@, "consultants")]

link_consultant_to_project(t, project_id, user_id, role_code) ==
    IF user_id = NoId THEN t
    ELSE [t EXCEPT !.links = Append(@, [project_id |-> project_id, user_id |-> user_id,
                                        role |-> role_code]),
                   !.writes = Append(@, "consultant_projects")]

\* netid of the user a role column refers to (LEFT JOIN users), NULL if none
JoinedNetid(t, id) == IF id \in DOMAIN t.users THEN t.users[id].netid ELSE None

\* the comparison `current == new_vals`: current is the fetched row, new_vals a
\* tuple; a list never equals a tuple
RowEqualsTuple(current, new_vals) == rowType = "tuple" /\ current = new_vals

\* update_project changed to repeat the side effects of a creation
update_project_with_side_effects(t, project_id, row) ==
    LET p == t.projects[project_id]
        r == ResolveRoles(t, row, 1, <<>>)
        upd == [r.t EXCEPT
                   !.projects[project_id] =
                       [project_name     |-> p.project_name,
                        project_semester |-> row["project_semester"],
                        client_name      |-> row["client_name"],
                        em_id |-> r.ret[1], sm_id |-> r.ret[2], pm_id |-> r.ret[3],
                        sc1_id |-> r.ret[4], sc2_id |-> r.ret[5]],
                   !.writes = Append(@, "projects")]
        m1 == mark_consultant_returning(upd, r.ret[2])
        m2 == mark_consultant_returning(m1, r.ret[3])
        m3 == mark_consultant_returning(m2, r.ret[4])
        m4 == mark_consultant_returning(m3, r.ret[5])
    IN  IF r.exc # NoExc THEN [t |-> r.t, ret |-> NoId, exc |-> r.exc, path |-> "failed"]
        ELSE [t |-> link_consultant_to_project(m4, project_id, r.ret[2], "SM"),
              ret |-> project_id, exc |-> NoExc, path |-> "updated"]

update_project(t, project_id, row) ==
    LET p       == t.projects[project_id]
        current == << p.project_semester, p.client_name,
                      JoinedNetid(t, p.em_id), JoinedNetid(t, p.sm_id),
                      JoinedNetid(t, p.pm_id), JoinedNetid(t, p.sc1_id),
                      JoinedNetid(t, p.sc2_id) >>
        r       == ResolveRoles(t, row, 1, <<>>)
        new_vals == << row["project_semester"], row["client_name"], row["em_netid"],
                       row["sm_netid"], row["pm_netid"], row["sc1_netid"],
                       row["sc2_netid"] >>
    IN  IF r.exc # NoExc THEN [t |-> r.t, ret |-> NoId, exc |-> r.exc, path |-> "failed"]
        ELSE IF RowEqualsTuple(current, new_vals)
        THEN [t |-> r.t, ret |-> NoId, exc |-> NoExc, path |-> "unchanged"]
        ELSE [t |-> [r.t EXCEPT
                        !.projects[project_id] =
                            [project_name     |-> p.project_name,
                             project_semester |-> row["project_semester"],
                             client_name      |-> row["client_name"],
                             em_id |-> r.ret[1], sm_id |-> r.ret[2], pm_id |-> r.ret[3],
                             sc1_id |-> r.ret[4], sc2_id |-> r.ret[5]],
                        !.writes = Append(@, "projects")],
              ret |-> project_id, exc |-> NoExc, path |-> "updated"]

\* CreateSideEffects changed to mark the engagement manager returning as well
CreateSideEffectsMarkingEM(t, project_id, ids) ==
    LET m0 == mark_consultant_returning(t,  ids[1])
        m1 == mark_consultant_returning(m0, ids[2])
        m2 == mark_consultant_returning(m1, ids[3])
        m3 == mark_consultant_returning(m2, ids[4])
        m4 == mark_consultant_returning(m3, ids[5])
        l1 == link_consultant_to_project(m4, project_id, ids[1], "EM")
        l2 == link_consultant_to_project(l1, project_id, ids[2], "SM")
        l3 == link_consultant_to_project(l2, project_id, ids[3], "PM")
        l4 == link_consultant_to_project(l3, project_id, ids[4], "SC")
    IN  link_consultant_to_project(l4, project_id, ids[5], "SC")

\* the side effects of a creation: SM, PM, SC1, SC2 marked returning, then one
\* link per role identifier
CreateSideEffects(t, project_id, ids) ==
    LET m1 == mark_consultant_returning(t,  ids[2])
        m2 == mark_consultant_returning(m1, ids[3])
        m3 == mark_consultant_returning(m2, ids[4])
        m4 == mark_consultant_returning(m3, ids[5])
        l1 == link_consultant_to_project(m4, project_id, ids[1], "EM")
        l2 == link_consultant_to_project(l1, project_id, ids[2], "SM")
        l3 == link_consultant_to_project(l2, project_id, ids[3], "PM")
        l4 == link_consultant_to_project(l3, project_id, ids[4], "SC")
    IN  link_consultant_to_project(l4, project_id, ids[5], "SC")

\* insert_project without the lookup by name: every row is inserted
insert_project_without_lookup(t, row) ==
    LET r == ResolveRoles(t, row, 1, <<>>)
        project_id == r.t.projSeq + 1
        ins == [r.t EXCEPT
                   !.projects = [q \in DOMAIN @ \cup {project_id} |->
                       IF q = project_id
                       THEN [project_name     |-> row["project_name"],
                             project_semester |-> row["project_semester"],
                             client_name      |-> row["client_name"],
                             em_id |-> r.ret[1], sm_id |-> r.ret[2],
                             pm_id |-> r.ret[3], sc1_id |-> r.ret[4],
                             sc2_id |-> r.ret[5]]
                       ELSE @[q]],
                   !.projSeq = project_id,
                   !.writes = Append(@, "projects")]
    IN  IF r.exc # NoExc
        THEN [t |-> r.t, ret |-> NoId, exc |-> r.exc, path |-> "failed"]
        ELSE [t |-> CreateSideEffects(ins, project_id, r.ret),
              ret |-> project_id, exc |-> NoExc, path |-> "created"]

insert_project(t, row) ==
    LET found == {p \in DOMAIN t.projects :
                     t.projects[p].project_name = row["project_name"]}
    IN  IF found # {}
        THEN update_project(t, CHOOSE p \in found : \A q \in found : p <= q, row)
        ELSE LET r == ResolveRoles(t, row, 1, <<>>)
                 project_id == r.t.projSeq + 1
                 ins == [r.t EXCEPT
                            !.projects = [q \in DOMAIN @ \cup {project_id} |->
                                IF q = project_id
                                THEN [project_name     |-> row["project_name"],
                                      project_semester |-> row["project_semester"],
                                      client_name      |-> row["client_name"],
                                      em_id |-> r.ret[1], sm_id |-> r.ret[2],
                                      pm_id |-> r.ret[3], sc1_id |-> r.ret[4],
                                      sc2_id |-> r.ret[5]]
                                ELSE @[q]],
                            !.projSeq = project_id,
                            !.writes = Append(@, "projects")]
             IN  IF r.exc # NoExc
                 THEN [t |-> r.t, ret |-> NoId, exc |-> r.exc, path |-> "failed"]
                 ELSE [t |-> CreateSideEffects(ins, project_id, r.ret),
                       ret |-> project_id, exc |-> NoExc, path |-> "created"]

-----------------------------------------------------------------------------
(* Bounds and inputs of the batch scripts.                                 *)

\* rows in one sheet
MaxBatch == 2

\* script runs in one behaviour
MaxRuns == 2

NoLast == [row |-> <<>>, outcome |-> "none", exc |-> NoExc, writes |-> <<>>,
           setCols |-> {}]

NoOutput == [kind |-> "none", valid_rows |-> 0, invalid_rows |-> 0]

\* the line the outer handlers print: the exception's type, its code (none for
\* an exception that is not a PipelineError) and its message
Fatal(type, code, message) ==
    [kind |-> "fatal", type |-> type, code |-> code, message |-> message]

\* `raise SheetReadError("No data found in the sheet")` and its projects twin
NoDataError == Fatal("SheetReadError", "E005", "no data")

\* what read_data_from_sheet / read_project_sheet raise
FeedErrors == { Fatal("SheetReadError", "E005", "HTTP request failed"),
                Fatal("InvalidFormatError", "E003", "invalid JSON") }

\* `raise DatabaseConnectionError(...)`
ConnectError == Fatal("DatabaseConnectionError", "E004", "connection failed")

\* the test `if not sheet_data` without effect
NoDataNever(sheet_data) == FALSE

\* the test `if not sheet_data`
NoData(sheet_data) == sheet_data = <<>>

Tables == [users |-> users, consultants |-> consultants, projects |-> projects,
           links |-> links]

\* texts used by the sheets
N1 == Str(<<"n", "1">>)
N2 == Str(<<"n", "2">>)
N3 == Str(<<"n", "3">>)
Ghost == Str(<<"n", "9">>)
Blank == Str(<<" ">>)
Empty == Str(<<>>)
F24 == Str(<<"F", "2", "4">>)
S25 == Str(<<"S", "2", "5">>)
Acme == Str(<<"A", "c", "m", "e">>)
ProjP == Str(<<"P">>)
ProjQ == Str(<<"Q">>)
StatusNew == Str(<<"n", "e", "w">>)
Returning == Str(<<"r","e","t","u","r","n","i","n","g">>)

ProjectRow(name, sem, em, sm, pm, sc1, sc2) ==
    [project_name |-> name, project_semester |-> sem, client_name |-> Acme,
     em_netid |-> em, sm_netid |-> sm, pm_netid |-> pm, sc1_netid |-> sc1,
     sc2_netid |-> sc2]

\* the rows a projects sheet is drawn from
ProjectRowSet ==
    { ProjectRow(ProjP, F24, N1, N2, None, Empty, Absent),
      ProjectRow(ProjP, S25, N1, N3, None, Empty, Absent),
      ProjectRow(ProjQ, F24, Blank, N1, N3, N2, N2),
      ProjectRow(ProjQ, F24, N1, Ghost, None, None, None),
      ProjectRow(Blank, F24, N1, N2, None, None, None) }

ProjectSheets == UNION {[1..n -> ProjectRowSet] : n \in 0..MaxBatch}

UserRow(email, netid, role) ==
    [name |-> email, email |-> email, netid |-> netid, curr_role |-> role]

ConsultantRow(major, status) == [major |-> major, status |-> status]

\* the people the roster pipeline stored before the projects pipeline runs
ProjInitUsers == << UserRow(Str(<<"a">>), N1, RoleText("NC")),
                    UserRow(Str(<<"b">>), N2, RoleText("SC")),
                    UserRow(Str(<<"c">>), N3, RoleText("NC")) >>

ProjInitConsultants == << ConsultantRow(Str(<<"m">>), StatusNew),
                          ConsultantRow(Str(<<"m">>), StatusNew),
                          ConsultantRow(Str(<<"m">>), Str(<<"D","e","f","e","r","r","e","d">>)) >>

InitProj ==
    /\ pipeline = "projects"
    /\ users = ProjInitUsers
    /\ consultants = ProjInitConsultants
    /\ projects = <<>>
    /\ links = <<>>
    /\ committed = [users |-> ProjInitUsers, consultants |-> ProjInitConsultants,
                    projects |-> <<>>, links |-> <<>>]
    /\ userSeq = Len(ProjInitUsers)
    /\ projSeq = 0
    /\ rowType \in {"list", "tuple"}
    /\ pc = "idle"
    /\ run = 0
    /\ sheet = <<>>
    /\ valid_rows = <<>>
    /\ invalid = <<>>
    /\ done = 0
    /\ last = NoLast
    /\ okKeys = {}
    /\ everOk = {}
    /\ output = NoOutput

\* the elements of seq that satisfy Test, in order
RECURSIVE SelectRows(_, _)
SelectRows(seq, keep) ==
    IF seq = <<>> THEN <<>>
    ELSE IF keep[Head(seq)] THEN <<Head(seq)>> \o SelectRows(Tail(seq), keep)
    ELSE SelectRows(Tail(seq), keep)

\* __main__ up to the connection: read, normalize, validate.  An empty sheet
\* raises SheetReadError, caught by the outer handler.
ProjReadSheet ==
    /\ pipeline = "projects"
    /\ pc = "idle"
    /\ run < MaxRuns
    /\ \E data \in ProjectSheets :
          LET rows == [i \in 1..Len(data) |-> normalize_project_row(data[i])]
              ok   == [r \in {rows[i] : i \in 1..Len(rows)} |-> project_row_valid(r).ok]
              bad  == [r \in {rows[i] : i \in 1..Len(rows)} |-> ~project_row_valid(r).ok]
              badRows == SelectRows(rows, bad)
          IN  /\ sheet' = data
              /\ IF NoData(data)
                 THEN /\ pc' = "aborted"
                      /\ valid_rows' = <<>>
                      /\ invalid' = <<>>
                      /\ output' = NoDataError
                 ELSE /\ pc' = "connect"
                      /\ valid_rows' = SelectRows(rows, ok)
                      /\ invalid' = [i \in 1..Len(badRows) |->
                                        project_row_valid(badRows[i]).reason]
                      /\ output' = NoOutput
    /\ run' = run + 1
    /\ done' = 0
    /\ last' = NoLast
    /\ okKeys' = {}
    /\ UNCHANGED <<pipeline, storeVars, rowType, everOk>>

\* read_project_sheet raises (transport or format): fatal
ProjReadSheetFails ==
    /\ pipeline = "projects"
    /\ pc = "idle"
    /\ run < MaxRuns
    /\ pc' = "aborted"
    /\ run' = run + 1
    /\ sheet' = <<>>
    /\ valid_rows' = <<>>
    /\ invalid' = <<>>
    /\ done' = 0
    /\ last' = NoLast
    /\ okKeys' = {}
    /\ output' \in FeedErrors
    /\ UNCHANGED <<pipeline, storeVars, rowType, everOk>>

\* connector.connect succeeds and the cursor is opened, or it raises
\* DatabaseConnectionError: fatal
ProjConnect ==
    /\ pipeline = "projects"
    /\ pc = "connect"
    /\ \/ /\ pc' = "loop"
          /\ output' = output
       \/ /\ pc' = "aborted"
          /\ output' = ConnectError
    /\ UNCHANGED <<pipeline, storeVars, rowType, run, sheet, valid_rows, invalid, done,
                   last, okKeys, everOk>>

\* the tables after the try/except of one loop iteration: the cursor's tables if
\* the row raised nothing; otherwise conn.rollback() ends the open transaction
\* and the tables are those of the last commit
RowTablesNoRollback(r) ==
    [users |-> r.t.users, consultants |-> r.t.consultants, projects |-> r.t.projects,
     links |-> r.t.links]

TablesAfterRow(r) ==
    IF r.exc # NoExc THEN committed
    ELSE [users |-> r.t.users, consultants |-> r.t.consultants,
          projects |-> r.t.projects, links |-> r.t.links]

\* one iteration of `for row in valid_rows`: insert_project, and on any
\* exception conn.rollback()
ProjProcessRow ==
    /\ pipeline = "projects"
    /\ pc = "loop"
    /\ done < Len(valid_rows)
    /\ LET row == valid_rows[done + 1]
           r   == insert_project(Txn, row)
           after == TablesAfterRow(r)
       IN  /\ users' = after.users
           /\ consultants' = after.consultants
           /\ projects' = after.projects
           /\ links' = after.links
           /\ projSeq' = r.t.projSeq
           /\ okKeys' = IF r.exc = NoExc THEN okKeys \cup {row["project_name"]} ELSE okKeys
           /\ everOk' = IF r.exc = NoExc THEN everOk \cup {row["project_name"]} ELSE everOk
           /\ last' = [row |-> row, outcome |-> r.path, exc |-> r.exc,
                       writes |-> r.t.writes, setCols |-> r.t.setCols]
    /\ done' = done + 1
    /\ UNCHANGED <<pipeline, committed, userSeq, rowType, pc, run, sheet, valid_rows,
                   invalid, output>>

\* after the loop: conn.commit(), close, print the summary
ProjCommit ==
    /\ pipeline = "projects"
    /\ pc = "loop"
    /\ done = Len(valid_rows)
    /\ committed' = Tables
    /\ pc' = "done"
    /\ output' = [kind |-> "summary", valid_rows |-> Len(valid_rows),
                  invalid_rows |-> Len(invalid)]
    /\ UNCHANGED <<pipeline, users, consultants, projects, links, userSeq, projSeq,
                   rowType, run, sheet, valid_rows, invalid, done, last, okKeys, everOk>>

\* the process ends; the next run of the script starts with fresh variables and
\* a new connection, which sees the committed tables only
ProjExit ==
    /\ pipeline = "projects"
    /\ pc \in {"done", "aborted"}
    /\ run < MaxRuns
    /\ pc' = "idle"
    /\ users' = committed.users
    /\ consultants' = committed.consultants
    /\ projects' = committed.projects
    /\ links' = committed.links
    /\ sheet' = <<>>
    /\ valid_rows' = <<>>
    /\ invalid' = <<>>
    /\ done' = 0
    /\ last' = NoLast
    /\ okKeys' = {}
    /\ output' = NoOutput
    /\ UNCHANGED <<pipeline, committed, userSeq, projSeq, rowType, run, everOk>>

NextProj == \/ ProjReadSheet
            \/ ProjExit
            \/ ProjReadSheetFails
            \/ ProjConnect
            \/ ProjProcessRow
            \/ ProjCommit

SpecProj == InitProj /\ [][NextProj]_vars

-----------------------------------------------------------------------------
(* build_availability_sql_columns (staffing-roster-pipeline.py; the copy   *)
(* in new-consultant-pipeline.py is the same text).                        *)
(* A sheet row is [cols, slots, avail]: cols are the named columns, slots  *)
(* the columns whose header contains "GMT-0600", keyed by the number n of  *)
(* the header "Slot n GMT-0600", avail the derived availability_* columns  *)
(* once row.update has added them (their names do not contain the marker). *)

\* ['0'] * 30
VectorWidth == 30

availability_sql_columns ==
    << "availability_mon", "availability_tue", "availability_wed", "availability_thu",
       "availability_fri", "availability_sat", "availability_sun" >>

AvailCols == {availability_sql_columns[i] : i \in 1..7}

\* characters in code point order
Ascii == <<" ", ",", "-", "0", "1", "2", "3", "4", "5", "6", "7", "8", "9",
           "A", "B", "C", "D", "E", "F", "G", "H", "I", "J", "K", "L", "M",
           "N", "O", "P", "Q", "R", "S", "T", "U", "V", "W", "X", "Y", "Z", "_",
           "a", "b", "c", "d", "e", "f", "g", "h", "i", "j", "k", "l", "m",
           "n", "o", "p", "q", "r", "s", "t", "u", "v", "w", "x", "y", "z">>

Chars == {Ascii[i] : i \in 1..Len(Ascii)}

OrdTable == [c \in Chars |-> CHOOSE i \in 1..Len(Ascii) : Ascii[i] = c]

\* ord(c)
Ord(c) == OrdTable[c]

\* a < b for Python strings
RECURSIVE PyStrLess(_, _)
PyStrLess(a, b) ==
    IF b = <<>> THEN FALSE
    ELSE IF a = <<>> THEN TRUE
    ELSE IF Head(a) = Head(b) THEN PyStrLess(Tail(a), Tail(b))
    ELSE Ord(Head(a)) < Ord(Head(b))

DigitChars == <<"0", "1", "2", "3", "4", "5", "6", "7", "8", "9">>

\* str(n)
RECURSIVE Decimal(_)
Decimal(n) == IF n < 10 THEN <<DigitChars[n + 1]>>
              ELSE Decimal(n \div 10) \o <<DigitChars[(n % 10) + 1]>>

\* the header of slot n
Label(n) == <<"S", "l", "o", "t", " ">> \o Decimal(n)
            \o <<" ", "G", "M", "T", "-", "0", "6", "0", "0">>

\* seq, ascending by number, with slot n put in its place
RECURSIVE InsertByNumber(_, _)
InsertByNumber(n, seq) ==
    IF seq = <<>> THEN <<n>>
    ELSE IF n < Head(seq) THEN <<n>> \o seq
    ELSE <<Head(seq)>> \o InsertByNumber(n, Tail(seq))

\* seq, ascending by header, with slot n put in its place
RECURSIVE InsertByLabel(_, _)
InsertByLabel(n, seq) ==
    IF seq = <<>> THEN <<n>>
    ELSE IF PyStrLess(Label(n), Label(Head(seq))) THEN <<n>> \o seq
    ELSE <<Head(seq)>> \o InsertByLabel(n, Tail(seq))

\* a plausible slip: the slots ordered by their number
RECURSIVE SortSlotsNumeric(_)
SortSlotsNumeric(S) ==
    IF S = {} THEN <<>>
    ELSE LET n == CHOOSE m \in S : TRUE
         IN  InsertByNumber(n, SortSlotsNumeric(S \ {n}))

\* time_slots.sort(): the headers in ascending string order
RECURSIVE SortSlots(_)
SortSlots(S) ==
    IF S = {} THEN <<>>
    ELSE LET n == CHOOSE m \in S : TRUE
         IN  InsertByLabel(n, SortSlots(S \ {n}))

\* str.split(","), the text before the first comma first
RECURSIVE SplitComma(_, _)
SplitComma(s, acc) ==
    IF s = <<>> THEN <<acc>>
    ELSE IF Head(s) = "," THEN <<acc>> \o SplitComma(Tail(s), <<>>)
    ELSE SplitComma(Tail(s), Append(acc, Head(s)))

\* the if/elif chain over the day names; "" for a token that is none of them
DayColumn(day) ==
    CASE day = <<"m", "o", "n", "d", "a", "y">> -> "availability_mon"
      [] day = <<"t", "u", "e", "s", "d", "a", "y">> -> "availability_tue"
      [] day = <<"w", "e", "d", "n", "e", "s", "d", "a", "y">> -> "availability_wed"
      [] day = <<"t", "h", "u", "r", "s", "d", "a", "y">> -> "availability_thu"
      [] day = <<"f", "r", "i", "d", "a", "y">> -> "availability_fri"
      [] day = <<"s", "a", "t", "u", "r", "d", "a", "y">> -> "availability_sat"
      [] day = <<"s", "u", "n", "d", "a", "y">> -> "availability_sun"
      [] OTHER -> ""

IndexError == [type |-> "IndexError", code |-> "", value |-> None, role |-> ""]
AttributeError == [type |-> "AttributeError", code |-> "", value |-> None, role |-> ""]

\* the inner loop `for day in available_days` at list index idx (from 0);
\* availabilities[...][idx] = '1' raises IndexError past the end of the list
RECURSIVE MarkDays(_, _, _)
MarkDays(av, idx, days) ==
    IF days = <<>> THEN [av |-> av, exc |-> NoExc]
    ELSE LET col == DayColumn(Lower(Strip(Head(days))))
         IN  IF col = "" THEN MarkDays(av, idx, Tail(days))
             ELSE IF idx >= Len(av[col]) THEN [av |-> av, exc |-> IndexError]
             ELSE MarkDays([av EXCEPT ![col][idx + 1] = "1"], idx, Tail(days))

\* the outer loop `for idx, slot in enumerate(time_slots)` from position i on
RECURSIVE EncodeSlots(_, _, _, _)
EncodeSlots(av, time_slots, i, row_entry) ==
    IF i > Len(time_slots) THEN [av |-> av, exc |-> NoExc]
    ELSE LET slot == time_slots[i]
             val  == IF slot \in DOMAIN row_entry.slots /\ Has(row_entry.slots[slot])
                     THEN row_entry.slots[slot] ELSE Str(<<>>)
         IN  IF Falsy(val) THEN EncodeSlots(av, time_slots, i + 1, row_entry)
             ELSE IF val.k # "str" THEN [av |-> av, exc |-> AttributeError]
             ELSE IF Strip(val.s) = <<>> THEN EncodeSlots(av, time_slots, i + 1, row_entry)
             ELSE LET m == MarkDays(av, i - 1, SplitComma(val.s, <<>>))
                  IN  IF m.exc # NoExc THEN m
                      ELSE EncodeSlots(m.av, time_slots, i + 1, row_entry)

\* the dict of the seven joined strings, or the exception raised
build_availability_sql_columns(row_entry, sheet_data) ==
    LET time_slots == SortSlots(DOMAIN sheet_data[1].slots)
        zeros == [c \in AvailCols |-> [i \in 1..VectorWidth |-> "0"]]
    IN  EncodeSlots(zeros, time_slots, 1, row_entry)

-----------------------------------------------------------------------------
(* The encoder loop `for row in sheet_data: row.update(...)` of __main__.   *)

DL_Empty == Str(<<>>)
DL_Spaces == Str(<<" ", " ">>)
DL_MonWed == Str(<<"M", "o", "n", "d", "a", "y", ",", " ", "W", "e", "d", "n", "e", "s", "d", "a", "y">>)
DL_WedMonMon == Str(<<"w", "e", "d", "n", "e", "s", "d", "a", "y", ",", "M", "O", "N", "D", "A", "Y", " ", ",", "m", "o", "n", "d", "a", "y">>)
DL_FundayTue == Str(<<"F", "u", "n", "d", "a", "y", ",", " ", "T", "u", "e", "s", "d", "a", "y">>)
DL_ThuFriSatSun == Str(<<"T", "h", "u", "r", "s", "d", "a", "y", ",", "F", "r", "i", "d", "a", "y", ",", " ", " ", "s", "a", "t", "u", "r", "d", "a", "y", ",", "S", "U", "N", "D", "A", "Y">>)
DL_Number == Num(<<"5">>)

\* the slot columns a sheet may have: none, one, three whose string order is
\* not their numeric order, as many as the vectors are wide, and one more
Catalogues == { {}, {5}, {1, 2, 10}, 0..(VectorWidth - 1), 0..VectorWidth }

\* (slot, value) pairs: a row holds the value in the slot if the sheet has that
\* slot, and the empty string in every other slot
ProbePairs == { <<2, DL_MonWed>>, <<10, DL_WedMonMon>>, <<9, DL_FundayTue>>,
                <<9, DL_Spaces>>, <<5, DL_ThuFriSatSun>>, <<1, None>>,
                <<10, DL_Number>>, <<5, Absent>> }

EncRow(cat, p, v) ==
    [cols |-> <<>>, slots |-> [n \in cat |-> IF n = p THEN v ELSE DL_Empty],
     avail |-> <<>>]

EncRows(cat) == {EncRow(cat, pr[1], pr[2]) : pr \in ProbePairs}

EncSheets == UNION {[1..n -> EncRows(cat)] : n \in 0..MaxBatch, cat \in Catalogues}

NoTables == [users |-> <<>>, consultants |-> <<>>, projects |-> <<>>, links |-> <<>>]

InitEnc ==
    /\ pipeline = "encoder"
    /\ users = <<>>
    /\ consultants = <<>>
    /\ projects = <<>>
    /\ links = <<>>
    /\ committed = NoTables
    /\ userSeq = 0
    /\ projSeq = 0
    /\ rowType = "list"
    /\ pc = "idle"
    /\ run = 0
    /\ sheet = <<>>
    /\ valid_rows = <<>>
    /\ invalid = <<>>
    /\ done = 0
    /\ last = NoLast
    /\ okKeys = {}
    /\ everOk = {}
    /\ output = NoOutput

\* read_data_from_sheet returns the rows; an empty sheet raises SheetReadError
EncReadSheet ==
    /\ pipeline = "encoder"
    /\ pc = "idle"
    /\ \E data \in EncSheets :
          /\ sheet' = data
          /\ IF NoData(data)
             THEN /\ pc' = "aborted"
                  /\ output' = NoDataError
             ELSE /\ pc' = "encoding"
                  /\ output' = output
    /\ run' = run + 1
    /\ UNCHANGED <<pipeline, storeVars, rowType, valid_rows, invalid, done, last,
                   okKeys, everOk>>

\* one iteration of the encoder loop: row.update(build_availability_sql_columns(
\* row, sheet_data)); an exception leaves the loop and the script (no handler
\* around a single row).  In "reencoding" the loop runs over the augmented rows.
EncEncodeRow ==
    /\ pipeline = "encoder"
    /\ pc \in {"encoding", "reencoding"}
    /\ done < Len(sheet)
    /\ LET row == sheet[done + 1]
           r   == build_availability_sql_columns(row, sheet)
       IN  IF r.exc # NoExc
           THEN /\ pc' = "aborted"
                /\ sheet' = sheet
                /\ done' = done
                /\ last' = [row |-> row, outcome |-> "failed", exc |-> r.exc,
                            writes |-> <<>>, setCols |-> {}]
                /\ output' = Fatal(r.exc.type, "", "unexpected")
           ELSE /\ pc' = pc
                /\ sheet' = [sheet EXCEPT ![done + 1].avail = r.av]
                /\ done' = done + 1
                /\ last' = [row |-> row, outcome |-> "encoded", exc |-> NoExc,
                            writes |-> <<>>, setCols |-> {}]
                /\ output' = output
    /\ UNCHANGED <<pipeline, storeVars, rowType, run, valid_rows, invalid, okKeys, everOk>>

\* the loop has run over every row; the same rows are then encoded once more
EncLoopEnds ==
    /\ pipeline = "encoder"
    /\ pc \in {"encoding", "reencoding"}
    /\ done = Len(sheet)
    /\ pc' = IF pc = "encoding" THEN "reencoding" ELSE "encoded"
    /\ done' = IF pc = "encoding" THEN 0 ELSE done
    /\ UNCHANGED <<pipeline, storeVars, rowType, run, sheet, valid_rows, invalid, last,
                   okKeys, everOk, output>>

NextEnc == \/ EncReadSheet
           \/ EncEncodeRow
           \/ EncLoopEnds

SpecEnc == InitEnc /\ [][NextEnc]_vars

-----------------------------------------------------------------------------
(* The row validators: row_is_valid (staffing-roster-pipeline.py),         *)
(* row_is_valid_and_nc (new-consultant-pipeline.py); project_row_valid is  *)
(* defined with the projects pipeline above.                               *)

\* the named columns of a person row that the model carries, in the order of
\* SHEET_COLS_TO_SQL_COLS
PersonKeys == <<"Name", "Email", "US Citizen", "Current Role", "NetID", "Major",
                "Semesters in IBC", "Status", "Week Before Finals Availability">>

PersonKeySet == {PersonKeys[i] : i \in 1..Len(PersonKeys)}

REQUIRED_SHEET_COLS == <<"Name", "Email", "Current Role", "NetID", "Major">>

\* ', '.join(items) as the sequence of its pieces
RECURSIVE JoinComma(_)
JoinComma(items) ==
    IF items = <<>> THEN <<>>
    ELSE IF Len(items) = 1 THEN items
    ELSE <<Head(items), ", ">> \o JoinComma(Tail(items))

\* a reason string: a fixed text, then joined pieces, then (for the role check)
\* the value formatted into it
Reason(text, joined, value) == [text |-> text, joined |-> joined, value |-> value]

NoReason == Reason("", <<>>, None)

\* the loop that collects the required columns whose value is missing
RECURSIVE MissingCols(_, _)
MissingCols(row, cols) ==
    IF cols = <<>> THEN <<>>
    ELSE (IF Missing(row.cols[Head(cols)]) THEN <<Head(cols)>> ELSE <<>>)
         \o MissingCols(row, Tail(cols))

row_is_valid(row) ==
    LET missing == MissingCols(row, REQUIRED_SHEET_COLS)
    IN  IF missing # <<>>
        THEN [ok |-> FALSE,
              reason |-> Reason("Missing required columns: ", JoinComma(missing), None)]
        ELSE [ok |-> TRUE, reason |-> NoReason]

\* row_is_valid_and_nc changed to compare the role without strip()
row_is_valid_and_nc_unstripped(row) ==
    LET missing == MissingCols(row, REQUIRED_SHEET_COLS)
        curr_role == Get(row.cols["Current Role"])
    IN  IF missing # <<>>
        THEN [ok |-> FALSE,
              reason |-> Reason("Missing required columns: ", JoinComma(missing), None)]
        ELSE IF curr_role.k # "str" \/ Lower(curr_role.s) # <<"n", "c">>
        THEN [ok |-> FALSE,
              reason |-> Reason("Current Role is not 'NC' (value: '", <<>>, curr_role)]
        ELSE [ok |-> TRUE, reason |-> NoReason]

row_is_valid_and_nc(row) ==
    LET missing == MissingCols(row, REQUIRED_SHEET_COLS)
        curr_role == Get(row.cols["Current Role"])
    IN  IF missing # <<>>
        THEN [ok |-> FALSE,
              reason |-> Reason("Missing required columns: ", JoinComma(missing), None)]
        ELSE IF curr_role.k # "str" \/ Lower(Strip(curr_role.s)) # <<"n", "c">>
        THEN [ok |-> FALSE,
              reason |-> Reason("Current Role is not 'NC' (value: '", <<>>, curr_role)]
        ELSE [ok |-> TRUE, reason |-> NoReason]

\* texts used by person rows
NameX == Str(<<"x">>)
NameY == Str(<<"y">>)
EmailA == Str(<<"a">>)
EmailB == Str(<<"b">>)
MajorM == Str(<<"m">>)
RoleNC == Str(<<"N", "C">>)
RoleNcLower == Str(<<"n", "c">>)
RoleNcPadded == Str(<<" ", "N", "c", " ">>)
RoleSC == Str(<<"S", "C">>)
Sem1 == Str(<<"1">>)
SemAbc == Str(<<"a", "b", "c">>)

PersonRow(name, email, role, netid, major, sem, status) ==
    [cols |-> [k \in PersonKeySet |->
                  CASE k = "Name" -> name
                    [] k = "Email" -> email
                    [] k = "Current Role" -> role
                    [] k = "NetID" -> netid
                    [] k = "Major" -> major
                    [] k = "Semesters in IBC" -> sem
                    [] k = "Status" -> status
                    [] OTHER -> Absent],
     slots |-> <<>>, avail |-> <<>>]

\* the person rows the validators are applied to
ValPersonRows ==
    { PersonRow(name, email, role, netid, major, Sem1, StatusNew) :
         name \in {NameX, Absent},
         email \in {EmailA, None, Blank},
         role \in {RoleNC, RoleNcLower, RoleNcPadded, RoleSC, Blank, Absent, Num(<<"5">>)},
         netid \in {N1, Empty},
         major \in {MajorM, Absent, Num(<<"0">>)} }

\* the project rows the validator is applied to
ValProjectRows ==
    { ProjectRow(name, F24, em, None, None, None, None) :
         name \in {ProjP, Blank, Empty, None, Absent, Num(<<"0">>)},
         em \in {N1, None} }

InitVal ==
    /\ pipeline = "validator"
    /\ users = <<>>
    /\ consultants = <<>>
    /\ projects = <<>>
    /\ links = <<>>
    /\ committed = NoTables
    /\ userSeq = 0
    /\ projSeq = 0
    /\ rowType = "list"
    /\ pc = "idle"
    /\ run = 0
    /\ sheet \in {<<row>> : row \in ValPersonRows \cup ValProjectRows}
    /\ valid_rows = <<>>
    /\ invalid = <<>>
    /\ done = 0
    /\ last = NoLast
    /\ okKeys = {}
    /\ everOk = {}
    /\ output = NoOutput

IsPersonRow(row) == "cols" \in DOMAIN row

\* the validation loop of a script over the sheet: valid rows are kept, the
\* reasons of the others recorded
ValidateWith(ok, reason, which) ==
    /\ pipeline = "validator"
    /\ pc = "idle"
    /\ pc' = which
    /\ valid_rows' = IF ok THEN sheet ELSE <<>>
    /\ invalid' = IF ok THEN <<>> ELSE <<reason>>
    /\ UNCHANGED <<pipeline, storeVars, rowType, run, sheet, done, last, okKeys, everOk,
                   output>>

\* staffing-roster-pipeline.py validates with row_is_valid
ValRoster ==
    /\ sheet # <<>> /\ IsPersonRow(sheet[1])
    /\ ValidateWith(row_is_valid(sheet[1]).ok, row_is_valid(sheet[1]).reason, "roster")

\* new-consultant-pipeline.py validates with row_is_valid_and_nc
ValNewConsultant ==
    /\ sheet # <<>> /\ IsPersonRow(sheet[1])
    /\ ValidateWith(row_is_valid_and_nc(sheet[1]).ok,
                    row_is_valid_and_nc(sheet[1]).reason, "new-consultant")

\* projects-pipeline.py normalizes the row, then validates with project_row_valid
ValProject ==
    /\ sheet # <<>> /\ ~IsPersonRow(sheet[1])
    /\ LET row == normalize_project_row(sheet[1])
       IN  ValidateWith(project_row_valid(row).ok,
                        Reason(project_row_valid(row).reason, <<>>, None), "projects")

NextVal == \/ ValRoster
           \/ ValNewConsultant
           \/ ValProject

SpecVal == InitVal /\ [][NextVal]_vars

-----------------------------------------------------------------------------
(* staffing-roster-pipeline.py: the store operations and the script.       *)
(* users and consultants are functions from user_id to a row.  Of the      *)
(* mapped columns the model carries name, email, curr_role, netid (users)  *)
(* and major, semesters_in_ibc, status plus the availability strings       *)
(* (consultants).                                                          *)

\* utils.py is not part of the sources; the two sets are the ones
\* new-consultant-pipeline.py defines under the same names
USERS_COLS == {"name", "email", "us_citizen", "curr_role", "netid"}
CONSULTANTS_COLS == {"major", "semesters_in_ibc", "status", "week_before_finals_availability"}

SHEET_COLS_TO_SQL_COLS ==
    [k \in PersonKeySet |->
        CASE k = "Name" -> "name"
          [] k = "Email" -> "email"
          [] k = "Current Role" -> "curr_role"
          [] k = "NetID" -> "netid"
          [] k = "Major" -> "major"
          [] k = "Semesters in IBC" -> "semesters_in_ibc"
          [] k = "Status" -> "status"
          [] k = "US Citizen" -> "us_citizen"
          [] OTHER -> "week_before_finals_availability"]

\* the sheet columns present in the row (`sheet_col in row`) that map into cols
ColsOf(row, cols) ==
    {k \in PersonKeySet : Has(row.cols[k]) /\ SHEET_COLS_TO_SQL_COLS[k] \in cols}

\* `None if val == "" else val`
NullIfEmpty(val) == IF val = Str(<<>>) THEN None ELSE val

\* the value the statement carries for an SQL column, NULL for a column that
\* the statement does not name
Param(row, sql_col) ==
    LET ks == {k \in PersonKeySet : SHEET_COLS_TO_SQL_COLS[k] = sql_col /\ Has(row.cols[k])}
    IN  IF ks = {} THEN None ELSE NullIfEmpty(row.cols[CHOOSE k \in ks : TRUE])

\* native booleans
PyTrue == [k |-> "bool", s |-> <<"T", "r", "u", "e">>]
PyFalse == [k |-> "bool", s |-> <<"F", "a", "l", "s", "e">>]

boolean_cols == {"us_citizen", "residency", "first_gen", "week_before_finals_availability"}

parse_boolean(value) ==
    IF value.k = "str"
    THEN LET value_lower == Lower(Strip(value.s))
         IN  IF value_lower \in {<<"y", "e", "s">>, <<"t", "r", "u", "e">>, <<"1">>}
             THEN PyTrue
             ELSE PyFalse
    ELSE IF value.k = "bool" THEN value
    ELSE PyFalse

\* the value insert_into_users and update_existing_user carry for a users
\* column: boolean columns go through parse_boolean first
UserParam(row, sql_col) ==
    LET ks == {k \in PersonKeySet : SHEET_COLS_TO_SQL_COLS[k] = sql_col /\ Has(row.cols[k])}
        val == row.cols[CHOOSE k \in ks : TRUE]
    IN  IF ks = {} THEN None
        ELSE IF sql_col \in boolean_cols THEN NullIfEmpty(parse_boolean(val))
        ELSE NullIfEmpty(val)

\* semesters_in_ibc is a number column (it is incremented by the end-of-semester
\* script): the store takes NULL, a number or a text of digits
IsDigits(s) == s # <<>> /\ \A i \in 1..Len(s) : \E d \in 1..Len(DigitChars) : s[i] = DigitChars[d]

StoreAcceptsNumber(v) == \/ v.k \in {"none", "num"}
                         \/ v.k = "str" /\ IsDigits(v.s)

\* row i of table tb becomes rec
Put(tb, i, rec) == [u \in DOMAIN tb \cup {i} |-> IF u = i THEN rec ELSE tb[u]]

insert_into_users(t, row) ==
    IF ColsOf(row, USERS_COLS) = {}
    THEN Raise(t, InvalidFormatError(None, ""))
    ELSE LET email == UserParam(row, "email")
             user_id == t.userSeq + 1
             t1 == [t EXCEPT !.userSeq = user_id]
         IN  IF email # None /\ \E u \in DOMAIN t.users : t.users[u].email = email
             THEN Raise(t1, DataConflictError(email))
             ELSE Ret([t1 EXCEPT !.users =
                          Put(@, user_id, [name |-> UserParam(row, "name"), email |-> email,
                                           us_citizen |-> UserParam(row, "us_citizen"),
                                           netid |-> UserParam(row, "netid"),
                                           curr_role |-> UserParam(row, "curr_role")]),
                                 !.writes = Append(@, "INSERT users")], user_id)

get_user_id_by_email(t, email) ==
    LET found == {u \in DOMAIN t.users : t.users[u].email = email}
    IN  IF found = {} THEN NoId ELSE CHOOSE u \in found : \A w \in found : u <= w

\* update_existing_user without the test `sql_col != "email"`
update_existing_user_with_email(t, row, user_id) ==
    LET cols == {SHEET_COLS_TO_SQL_COLS[k] : k \in ColsOf(row, USERS_COLS)}
        old == t.users[user_id]
    IN  IF cols = {} THEN Ret(t, NoId)
        ELSE Ret([t EXCEPT !.users[user_id] =
                     [c \in DOMAIN old |-> IF c \in cols THEN UserParam(row, c) ELSE old[c]],
                           !.writes = Append(@, "UPDATE users"),
                           !.setCols = @ \cup cols], NoId)

\* every mapped users column of the row except email is overwritten; setCols
\* records the columns the UPDATE users statement names
update_existing_user(t, row, user_id) ==
    LET cols == {SHEET_COLS_TO_SQL_COLS[k] : k \in ColsOf(row, USERS_COLS)} \ {"email"}
        old == t.users[user_id]
    IN  IF cols = {} THEN Ret(t, NoId)
        ELSE Ret([t EXCEPT !.users[user_id] =
                     [c \in DOMAIN old |-> IF c \in cols THEN UserParam(row, c) ELSE old[c]],
                           !.writes = Append(@, "UPDATE users"),
                           !.setCols = @ \cup cols], NoId)

insert_into_consultants(t, row, user_id) ==
    IF ~StoreAcceptsNumber(Param(row, "semesters_in_ibc"))
    THEN Raise(t, DatabaseError(Param(row, "semesters_in_ibc")))
    ELSE Ret([t EXCEPT !.consultants =
                 Put(@, user_id, [major |-> Param(row, "major"),
                                  semesters_in_ibc |-> Param(row, "semesters_in_ibc"),
                                  status |-> Param(row, "status"),
                                  week_before_finals_availability |->
                                     Param(row, "week_before_finals_availability"),
                                  avail |-> row.avail]),
                       !.writes = Append(@, "INSERT consultants")], NoId)

\* update_existing_consultant without the existence test: always the insert
update_existing_consultant_by_insert(t, row, user_id) ==
    insert_into_consultants(t, row, user_id)

update_existing_consultant(t, row, user_id) ==
    IF user_id \in DOMAIN t.consultants
    THEN LET cols == {SHEET_COLS_TO_SQL_COLS[k] : k \in ColsOf(row, CONSULTANTS_COLS)}
             old == t.consultants[user_id]
         IN  IF "semesters_in_ibc" \in cols
                /\ ~StoreAcceptsNumber(Param(row, "semesters_in_ibc"))
             THEN Raise(t, DatabaseError(Param(row, "semesters_in_ibc")))
             ELSE Ret([t EXCEPT !.consultants[user_id] =
                          [c \in DOMAIN old |->
                              IF c = "avail" THEN row.avail
                              ELSE IF c \in cols THEN Param(row, c) ELSE old[c]],
                                !.writes = Append(@, "UPDATE consultants")], NoId)
    ELSE insert_into_consultants(t, row, user_id)

\* ResolvePerson with an update branch that writes nothing
ResolvePersonKeepingFirst(t, row) ==
    LET email == Get(row.cols["Email"])
        existing_user_id == IF Falsy(email) THEN NoId ELSE get_user_id_by_email(t, email)
    IN  IF existing_user_id # NoId /\ existing_user_id # 0
        THEN [t |-> t, exc |-> NoExc, path |-> "update"]
        ELSE LET u == insert_into_users(t, row)
                 c == insert_into_consultants(u.t, row, u.ret)
             IN  IF u.exc # NoExc THEN [t |-> u.t, exc |-> u.exc, path |-> "insert"]
                 ELSE [t |-> c.t, exc |-> c.exc, path |-> "insert"]

\* the body of the try in the row loop: lookup by email, then the update pair
\* or the insert pair.  `if existing_user_id:` is the truth value of the id.
ResolvePerson(t, row) ==
    LET email == Get(row.cols["Email"])
        existing_user_id == IF Falsy(email) THEN NoId ELSE get_user_id_by_email(t, email)
    IN  IF existing_user_id # NoId /\ existing_user_id # 0
        THEN LET u == update_existing_user(t, row, existing_user_id)
                 c == update_existing_consultant(u.t, row, existing_user_id)
             IN  [t |-> c.t, exc |-> c.exc, path |-> "update"]
        ELSE LET u == insert_into_users(t, row)
                 c == insert_into_consultants(u.t, row, u.ret)
             IN  IF u.exc # NoExc THEN [t |-> u.t, exc |-> u.exc, path |-> "insert"]
                 ELSE [t |-> c.t, exc |-> c.exc, path |-> "insert"]

YesPadded == Str(<<" ", "Y", "e", "s", " ">>)
Maybe == Str(<<"m", "a", "y", "b", "e">>)

\* the body of the try in the row loop of new-consultant-pipeline.py: the
\* insert pair, without a lookup
InsertPerson(t, row) ==
    LET u == insert_into_users(t, row)
        c == insert_into_consultants(u.t, row, u.ret)
    IN  IF u.exc # NoExc THEN [t |-> u.t, exc |-> u.exc, path |-> "insert"]
        ELSE [t |-> c.t, exc |-> c.exc, path |-> "insert"]

\* the two person scripts share the shape of __main__; they differ in the
\* validator and in the body of the row loop
PersonPipelines == {"roster", "new-consultant"}

Validate(row) == IF pipeline = "roster" THEN row_is_valid(row) ELSE row_is_valid_and_nc(row)

ProcessPerson(t, row) ==
    IF pipeline = "roster" THEN ResolvePerson(t, row) ELSE InsertPerson(t, row)

\* the rows a roster sheet is drawn from; every sheet has one slot column
RosterRow(name, email, role, netid, major, sem, status, days, citizen, finals) ==
    [PersonRow(name, email, role, netid, major, sem, status)
        EXCEPT !.slots = [n \in {1} |-> days],
               !.cols["US Citizen"] = citizen,
               !.cols["Week Before Finals Availability"] = finals]

RosterRowSet ==
    { RosterRow(NameX, EmailA, RoleNC, N1, MajorM, Sem1, StatusNew, DL_MonWed,
                YesPadded, YesPadded),
      RosterRow(NameY, EmailA, RoleSC, N1, MajorM, Str(<<"2">>), Returning, DL_Empty,
                Num(<<"1">>), Empty),
      RosterRow(NameY, EmailB, RoleNC, N2, MajorM, SemAbc, StatusNew, DL_Empty,
                Str(<<"n", "o">>), Str(<<"0">>)),
      RosterRow(NameY, EmailB, RoleNC, N2, Empty, Sem1, Absent, DL_Empty,
                Absent, Absent),
      RosterRow(NameX, EmailB, RoleNC, N2, MajorM, Sem1, StatusNew, DL_Number,
                PyTrue, Maybe),
      RosterRow(Absent, EmailB, RoleNC, N2, MajorM, Sem1, StatusNew, DL_Number,
                Absent, Absent) }

RosterSheets == UNION {[1..n -> RosterRowSet] : n \in 0..MaxBatch}

\* a person stored without a consultant profile before the script runs
SeededUsers == << [name |-> NameY, email |-> EmailA, us_citizen |-> None, netid |-> N1,
                   curr_role |-> RoleSC] >>

\* the store is empty, or it holds one person who has no profile yet
InitRoster ==
    /\ pipeline = "roster"
    /\ users \in {<<>>, SeededUsers}
    /\ consultants = <<>>
    /\ projects = <<>>
    /\ links = <<>>
    /\ committed = [NoTables EXCEPT !.users = users]
    /\ userSeq = Len(users)
    /\ projSeq = 0
    /\ rowType = "list"
    /\ pc = "idle"
    /\ run = 0
    /\ sheet = <<>>
    /\ valid_rows = <<>>
    /\ invalid = <<>>
    /\ done = 0
    /\ last = NoLast
    /\ okKeys = {}
    /\ everOk = {}
    /\ output = NoOutput

\* `for row in sheet_data: row.update(build_availability_sql_columns(...))`:
\* the rows with their seven strings, or the first exception
RECURSIVE EncodeAll(_, _, _)
EncodeAll(data, i, rows) ==
    IF i > Len(data) THEN [rows |-> rows, exc |-> NoExc]
    ELSE LET r == build_availability_sql_columns(data[i], data)
         IN  IF r.exc # NoExc THEN [rows |-> rows, exc |-> r.exc]
             ELSE EncodeAll(data, i + 1, Append(rows, [data[i] EXCEPT !.avail = r.av]))

\* __main__ up to the connection: read, encode, validate.  An empty sheet and an
\* exception of the encoder reach the outer handlers.
RosterReadSheet ==
    /\ pipeline \in PersonPipelines
    /\ pc = "idle"
    /\ run < MaxRuns
    /\ \E data \in RosterSheets :
          LET enc == EncodeAll(data, 1, <<>>)
              all == {enc.rows[i] : i \in 1..Len(enc.rows)}
              ok  == [r \in all |-> Validate(r).ok]
              bad == [r \in all |-> ~Validate(r).ok]
              badRows == SelectRows(enc.rows, bad)
          IN  /\ sheet' = data
              /\ IF NoData(data) \/ enc.exc # NoExc
                 THEN /\ pc' = "aborted"
                      /\ valid_rows' = <<>>
                      /\ invalid' = <<>>
                      /\ output' = IF NoData(data) THEN NoDataError
                                    ELSE Fatal(enc.exc.type, "", "unexpected")
                 ELSE /\ pc' = "connect"
                      /\ valid_rows' = SelectRows(enc.rows, ok)
                      /\ invalid' = [i \in 1..Len(badRows) |->
                                        Validate(badRows[i]).reason]
                      /\ output' = NoOutput
    /\ run' = run + 1
    /\ done' = 0
    /\ last' = NoLast
    /\ okKeys' = {}
    /\ UNCHANGED <<pipeline, storeVars, rowType, everOk>>

\* read_data_from_sheet raises (transport or format): fatal
RosterReadSheetFails ==
    /\ pipeline \in PersonPipelines
    /\ pc = "idle"
    /\ run < MaxRuns
    /\ pc' = "aborted"
    /\ run' = run + 1
    /\ sheet' = <<>>
    /\ valid_rows' = <<>>
    /\ invalid' = <<>>
    /\ done' = 0
    /\ last' = NoLast
    /\ okKeys' = {}
    /\ output' \in FeedErrors
    /\ UNCHANGED <<pipeline, storeVars, rowType, everOk>>

\* connector.connect succeeds and the cursor is opened, or it raises
\* DatabaseConnectionError: fatal
RosterConnect ==
    /\ pipeline \in PersonPipelines
    /\ pc = "connect"
    /\ \/ /\ pc' = "loop"
          /\ output' = output
       \/ /\ pc' = "aborted"
          /\ output' = ConnectError
    /\ UNCHANGED <<pipeline, storeVars, rowType, run, sheet, valid_rows, invalid, done,
                   last, okKeys, everOk>>

\* one iteration of `for row in valid_rows`; each except clause calls
\* conn.rollback() and continues
RosterProcessRow ==
    /\ pipeline \in PersonPipelines
    /\ pc = "loop"
    /\ done < Len(valid_rows)
    /\ LET row == valid_rows[done + 1]
           r   == ProcessPerson(Txn, row)
           after == TablesAfterRow(r)
       IN  /\ users' = after.users
           /\ consultants' = after.consultants
           /\ projects' = after.projects
           /\ links' = after.links
           /\ userSeq' = r.t.userSeq
           /\ okKeys' = IF r.exc = NoExc THEN okKeys \cup {row.cols["Email"]} ELSE okKeys
           /\ everOk' = IF r.exc = NoExc THEN everOk \cup {row.cols["Email"]} ELSE everOk
           /\ last' = [row |-> row, outcome |-> r.path, exc |-> r.exc,
                       writes |-> r.t.writes, setCols |-> r.t.setCols]
    /\ done' = done + 1
    /\ UNCHANGED <<pipeline, committed, projSeq, rowType, pc, run, sheet, valid_rows,
                   invalid, output>>

\* after the loop: conn.commit(), close, print the summary
RosterCommit ==
    /\ pipeline \in PersonPipelines
    /\ pc = "loop"
    /\ done = Len(valid_rows)
    /\ committed' = Tables
    /\ pc' = "done"
    /\ output' = [kind |-> "summary", valid_rows |-> Len(valid_rows),
                  invalid_rows |-> Len(invalid)]
    /\ UNCHANGED <<pipeline, users, consultants, projects, links, userSeq, projSeq,
                   rowType, run, sheet, valid_rows, invalid, done, last, okKeys, everOk>>

\* the process ends; the next run starts with fresh variables and a new
\* connection, which sees the committed tables only
RosterExit ==
    /\ pipeline \in PersonPipelines
    /\ pc \in {"done", "aborted"}
    /\ run < MaxRuns
    /\ pc' = "idle"
    /\ users' = committed.users
    /\ consultants' = committed.consultants
    /\ projects' = committed.projects
    /\ links' = committed.links
    /\ sheet' = <<>>
    /\ valid_rows' = <<>>
    /\ invalid' = <<>>
    /\ done' = 0
    /\ last' = NoLast
    /\ okKeys' = {}
    /\ output' = NoOutput
    /\ UNCHANGED <<pipeline, committed, userSeq, projSeq, rowType, run, everOk>>

NextRoster == \/ RosterReadSheet
              \/ RosterExit
              \/ RosterReadSheetFails
              \/ RosterConnect
              \/ RosterProcessRow
              \/ RosterCommit

SpecRoster == InitRoster /\ [][NextRoster]_vars

\* new-consultant-pipeline.py run on the same sheets
InitNewConsultant ==
    /\ pipeline = "new-consultant"
    /\ users = <<>>
    /\ consultants = <<>>
    /\ projects = <<>>
    /\ links = <<>>
    /\ committed = NoTables
    /\ userSeq = 0
    /\ projSeq = 0
    /\ rowType = "list"
    /\ pc = "idle"
    /\ run = 0
    /\ sheet = <<>>
    /\ valid_rows = <<>>
    /\ invalid = <<>>
    /\ done = 0
    /\ last = NoLast
    /\ okKeys = {}
    /\ everOk = {}
    /\ output = NoOutput

SpecNewConsultant == InitNewConsultant /\ [][NextRoster]_vars

\* a store whose users sequence handed out the identifier 0: one person, with
\* no profile yet
ZeroUsers == [u \in {0} |-> [name |-> NameY, email |-> EmailA, us_citizen |-> None,
                             netid |-> N1, curr_role |-> RoleSC]]

\* the staffing-roster script started on that store
InitRosterZero ==
    /\ pipeline = "roster"
    /\ users = ZeroUsers
    /\ consultants = <<>>
    /\ projects = <<>>
    /\ links = <<>>
    /\ committed = [NoTables EXCEPT !.users = users]
    /\ userSeq = 0
    /\ projSeq = 0
    /\ rowType = "list"
    /\ pc = "idle"
    /\ run = 0
    /\ sheet = <<>>
    /\ valid_rows = <<>>
    /\ invalid = <<>>
    /\ done = 0
    /\ last = NoLast
    /\ okKeys = {}
    /\ everOk = {}
    /\ output = NoOutput

SpecRosterZero == InitRosterZero /\ [][NextRoster]_vars

-----------------------------------------------------------------------------
(* end-semester-pipeline.py: run_end_of_semester_updates.                  *)

\* the number a text of digits denotes
RECURSIVE ToInt(_)
ToInt(s) ==
    IF s = <<>> THEN 0
    ELSE 10 * ToInt(SubSeq(s, 1, Len(s) - 1))
         + (CHOOSE d \in 0..9 : DigitChars[d + 1] = s[Len(s)])

\* semesters_in_ibc + 1 as SQL computes it: NULL for NULL
PlusOne(v) == IF v.k = "none" THEN None ELSE Num(Decimal(ToInt(v.s) + 1))

Deferred == Str(<<"D", "e", "f", "e", "r", "r", "e", "d">>)

\* UPDATE consultants SET status = 'Deferred', semesters_in_ibc = semesters_in_ibc + 1;
update_query(tb) ==
    [u \in DOMAIN tb |-> [tb[u] EXCEPT !.status = Deferred,
                                       !.semesters_in_ibc = PlusOne(@)]]

\* the profiles the store may hold before the script runs: as the person
\* scripts write them, the semester count null, a number or a text of digits
SemProfile(status, sem) ==
    [major |-> MajorM, semesters_in_ibc |-> sem, status |-> status,
     week_before_finals_availability |-> None, avail |-> <<>>]

SemProfiles ==
    { SemProfile(status, sem) : status \in {StatusNew, Returning, Deferred},
                               sem \in {Num(<<"0">>), Num(<<"9">>), Str(<<"1">>), None} }

SemUsers == << [name |-> NameX, email |-> EmailA, us_citizen |-> None, netid |-> N1,
                curr_role |-> RoleNC],
               [name |-> NameY, email |-> EmailB, us_citizen |-> None, netid |-> N2,
                curr_role |-> RoleSC] >>

InitSemester ==
    /\ pipeline = "end-semester"
    /\ users = SemUsers
    /\ consultants \in UNION {[1..n -> SemProfiles] : n \in 0..Len(SemUsers)}
    /\ projects = <<>>
    /\ links = <<>>
    /\ committed = [NoTables EXCEPT !.users = users, !.consultants = consultants]
    /\ userSeq = Len(SemUsers)
    /\ projSeq = 0
    /\ rowType = "list"
    /\ pc = "idle"
    /\ run = 0
    /\ sheet = <<>>
    /\ valid_rows = <<>>
    /\ invalid = <<>>
    /\ done = 0
    /\ last = NoLast
    /\ okKeys = {}
    /\ everOk = {}
    /\ output = NoOutput

\* the variables the script has no part in
SemFrame == <<pipeline, users, projects, links, userSeq, projSeq, rowType, sheet,
              valid_rows, invalid, last, okKeys, everOk>>

\* connector.connect succeeds, or raises DatabaseConnectionError (conn is None:
\* nothing to roll back)
SemConnect ==
    /\ pipeline = "end-semester"
    /\ pc = "idle"
    /\ run < MaxRuns
    /\ run' = run + 1
    /\ done' = 0
    /\ \/ /\ pc' = "connected"
          /\ output' = NoOutput
       \/ /\ pc' = "aborted"
          /\ output' = ConnectError
    /\ UNCHANGED <<SemFrame, consultants, committed>>

\* cursor.execute(update_query) and cursor.rowcount, or the statement raises:
\* conn.rollback() in the handler
SemExecute ==
    /\ pipeline = "end-semester"
    /\ pc = "connected"
    /\ \/ /\ consultants' = update_query(consultants)
          /\ done' = Cardinality(DOMAIN consultants)
          /\ pc' = "executed"
          /\ output' = output
       \/ /\ consultants' = committed.consultants
          /\ done' = done
          /\ pc' = "aborted"
          /\ output' = Fatal("DatabaseError", "", "unexpected")
    /\ UNCHANGED <<SemFrame, committed, run>>

\* conn.commit() and the final print, or the commit raises: conn.rollback()
SemCommit ==
    /\ pipeline = "end-semester"
    /\ pc = "executed"
    /\ \/ /\ committed' = Tables
          /\ consultants' = consultants
          /\ pc' = "done"
          /\ output' = [kind |-> "complete", updated_rows |-> done]
       \/ /\ committed' = committed
          /\ consultants' = committed.consultants
          /\ pc' = "aborted"
          /\ output' = Fatal("DatabaseError", "", "unexpected")
    /\ UNCHANGED <<SemFrame, run, done>>

\* the process ends; the script may be run again
SemExit ==
    /\ pipeline = "end-semester"
    /\ pc \in {"done", "aborted"}
    /\ run < MaxRuns
    /\ pc' = "idle"
    /\ done' = 0
    /\ output' = NoOutput
    /\ UNCHANGED <<SemFrame, consultants, committed, run>>

NextSemester == \/ SemConnect
                \/ SemExecute
                \/ SemCommit
                \/ SemExit

SpecSemester == InitSemester /\ [][NextSemester]_vars

-----------------------------------------------------------------------------
(* Properties of the projects pipeline.                                    *)

\* the loop handles valid_rows[done + 1] in this step
ProjRowStep == pipeline = "projects" /\ pc = "loop" /\ done' = done + 1

\* the person a role value names in the users table, NoId for a blank value
\* and for a value no person has
Ident(netid) ==
    IF Falsy(netid) THEN NoId
    ELSE IF \E u \in DOMAIN users : users[u].netid = netid
    THEN CHOOSE u \in DOMAIN users : users[u].netid = netid
    ELSE NoId

Unresolved(row) ==
    {i \in 1..Len(Slots) : ~Falsy(row[Slots[i].key]) /\ Ident(row[Slots[i].key]) = NoId}

Stored(name) == {p \in DOMAIN projects : projects[p].project_name = name}

\* the row names a stored project and carries exactly its stored values
SameAsStored(row) ==
    \E p \in Stored(row["project_name"]) :
        /\ projects[p].project_semester = row["project_semester"]
        /\ projects[p].client_name = row["client_name"]
        /\ \A i \in 1..Len(Slots) : projects[p][Slots[i].col] = Ident(row[Slots[i].key])

\* C3: a row for a stored project whose semester, client and five role
\* identities equal the stored values is reported unchanged and writes to no
\* table.
C3_NoOpWritesNothing ==
    [][ProjRowStep /\ SameAsStored(valid_rows[done + 1])
          => last'.outcome = "unchanged" /\ last'.writes = <<>>]_vars

\* C4: a step whose outcome is updated or unchanged changes no consultant
\* status and no row of the link table.
C4_SideEffectsOnlyOnCreate ==
    [][ProjRowStep /\ last'.outcome \in {"updated", "unchanged"}
          => consultants' = consultants /\ links' = links]_vars

\* an update put person 3 into the SM slot of a project; person 3 has not been
\* marked returning and has no link
C4_Witness ==
    /\ last.outcome = "updated"
    /\ \E p \in DOMAIN projects : projects[p].sm_id = 3
    /\ consultants[3].status # Returning
    /\ \A i \in 1..Len(links) : links[i].user_id # 3

\* C5: a row with a role netid no person has fails with an error naming that
\* value, nothing the row wrote stays in the tables (role labels included), and
\* the loop goes on.
C5_UnresolvedRoleFailsRow ==
    [][ProjRowStep /\ Unresolved(valid_rows[done + 1]) # {}
          => LET row == valid_rows[done + 1]
                 i   == CHOOSE j \in Unresolved(row) : \A k \in Unresolved(row) : j <= k
             IN  /\ last'.outcome = "failed"
                 /\ last'.exc.type = "InvalidFormatError"
                 /\ last'.exc.value = row[Slots[i].key]
                 /\ last'.exc.role = Slots[i].role
                 /\ Tables' = committed
                 /\ committed' = committed
                 /\ pc' = "loop"]_vars

\* a row failed after it had changed a role label, and a later row of the same
\* sheet was handled after it
C5_Witness ==
    /\ pc = "loop"
    /\ done = 2
    /\ Unresolved(valid_rows[1]) # {}
    /\ Ident(valid_rows[1]["em_netid"]) # NoId
    /\ users[Ident(valid_rows[1]["em_netid"])].curr_role # RoleText("EM")
    /\ last.outcome = "created"

RoleIds(row) == [i \in 1..Len(Slots) |-> Ident(row[Slots[i].key])]

\* the link rows a creation adds: one per slot that holds a person, in slot order
RECURSIVE ExpectedLinks(_, _, _)
ExpectedLinks(pid, ids, i) ==
    IF i > Len(Slots) THEN <<>>
    ELSE (IF ids[i] = NoId THEN <<>>
          ELSE <<[project_id |-> pid, user_id |-> ids[i], role |-> Slots[i].role]>>)
         \o ExpectedLinks(pid, ids, i + 1)

\* C6: a row whose name is not stored and whose role netids all resolve inserts
\* one project row with its fields and role identifiers, marks the SM, PM, SC1
\* and SC2 people (not the EM) returning, and adds one link per filled slot.
C6_Creation ==
    [][ProjRowStep /\ Stored(valid_rows[done + 1]["project_name"]) = {}
                   /\ Unresolved(valid_rows[done + 1]) = {}
          => LET row == valid_rows[done + 1]
                 ids == RoleIds(row)
             IN  /\ last'.outcome = "created"
                 /\ \E pid \in DOMAIN projects' \ DOMAIN projects :
                       /\ DOMAIN projects' = DOMAIN projects \cup {pid}
                       /\ \A q \in DOMAIN projects : projects'[q] = projects[q]
                       /\ projects'[pid] =
                             [project_name     |-> row["project_name"],
                              project_semester |-> row["project_semester"],
                              client_name      |-> row["client_name"],
                              em_id |-> ids[1], sm_id |-> ids[2], pm_id |-> ids[3],
                              sc1_id |-> ids[4], sc2_id |-> ids[5]]
                       /\ links' = links \o ExpectedLinks(pid, ids, 1)
                 /\ DOMAIN consultants' = DOMAIN consultants
                 /\ \A u \in DOMAIN consultants :
                       consultants'[u].status =
                          IF u \in {ids[2], ids[3], ids[4], ids[5]}
                          THEN Returning ELSE consultants[u].status]_vars

\* a project was created with a blank SM..SC2 slot and a filled EM slot: the EM
\* has a link and is not returning
C6_Witness ==
    /\ last.outcome = "created"
    /\ \E i \in 1..Len(links) :
          /\ links[i].role = "EM"
          /\ consultants[links[i].user_id].status # Returning
    /\ \E i \in 1..Len(links) : links[i].role = "SM"

-----------------------------------------------------------------------------
(* Properties of the availability encoder.                                 *)

\* the weekday columns named in a slot value, read off by hand
ExpectedDays(v) ==
    CASE v = DL_MonWed -> {"availability_mon", "availability_wed"}
      [] v = DL_WedMonMon -> {"availability_mon", "availability_wed"}
      [] v = DL_FundayTue -> {"availability_tue"}
      [] v = DL_ThuFriSatSun -> {"availability_thu", "availability_fri",
                                 "availability_sat", "availability_sun"}
      [] OTHER -> {}

\* the slot headers of each catalogue in ascending string order, read off by
\* hand ("Slot 10 ..." before "Slot 2 ...")
ExpectedOrder(cat) ==
    CASE cat = {} -> <<>>
      [] cat = {5} -> <<5>>
      [] cat = {1, 2, 10} -> <<1, 10, 2>>
      [] cat = 0..29 -> <<0, 1, 10, 11, 12, 13, 14, 15, 16, 17, 18, 19, 2, 20, 21, 22,
                          23, 24, 25, 26, 27, 28, 29, 3, 4, 5, 6, 7, 8, 9>>
      [] cat = 0..30 -> <<0, 1, 10, 11, 12, 13, 14, 15, 16, 17, 18, 19, 2, 20, 21, 22,
                          23, 24, 25, 26, 27, 28, 29, 3, 30, 4, 5, 6, 7, 8, 9>>

Catalogue == IF sheet = <<>> THEN {} ELSE DOMAIN sheet[1].slots

Encoded == {i \in 1..Len(sheet) : sheet[i].avail # <<>>}

\* the weekday columns whose vector holds '1' at position k (from 1)
Decode(avail, k) == {c \in DOMAIN avail : k <= Len(avail[c]) /\ avail[c][k] = "1"}

StringValues(row) == \A n \in DOMAIN row.slots : row.slots[n].k # "num"

\* C8: every row whose slot values are texts is encoded, and for every slot of
\* the catalogue the seven vectors decoded at the slot's position give exactly
\* the recognized weekday names of the row's value for that slot.
C8_RoundTrip ==
    pipeline = "encoder" =>
       /\ pc = "aborted" /\ sheet # <<>> => ~StringValues(last.row)
       /\ \A i \in Encoded : \A k \in 1..Len(ExpectedOrder(Catalogue)) :
             /\ \A c \in AvailCols : k <= Len(sheet[i].avail[c])
             /\ Decode(sheet[i].avail, k)
                   = ExpectedDays(sheet[i].slots[ExpectedOrder(Catalogue)[k]])

\* C9: the encoder returns seven strings, each as long as the catalogue and made
\* of '0' and '1' only.
C9_VectorShape ==
    pipeline = "encoder" =>
       \A i \in Encoded :
          /\ DOMAIN sheet[i].avail = AvailCols
          /\ \A c \in AvailCols :
                /\ Len(sheet[i].avail[c]) = Cardinality(Catalogue)
                /\ \A k \in 1..Len(sheet[i].avail[c]) : sheet[i].avail[c][k] \in {"0", "1"}

\* C10: position i of every vector of every row stands for the i-th slot header
\* in ascending string order, and encoding a row again, after the rows carry
\* the derived columns, gives the same vectors.
C10_BitPositions ==
    pipeline = "encoder" =>
       /\ \A i \in Encoded : \A c \in AvailCols : \A k \in 1..Len(sheet[i].avail[c]) :
             k <= Len(ExpectedOrder(Catalogue)) =>
                (sheet[i].avail[c][k] = "1"
                   <=> c \in ExpectedDays(sheet[i].slots[ExpectedOrder(Catalogue)[k]]))
       /\ pc \in {"reencoding", "encoded"} /\ done > 0 /\ last.outcome = "encoded"
             => sheet[done].avail = last.row.avail

\* two rows of a sheet with the slots 1, 2, 10 were encoded twice; the row with
\* days in slot 10 has them at the second position, the row with days in slot 2
\* at the third
C10_Witness ==
    /\ pc = "encoded"
    /\ Catalogue = {1, 2, 10}
    /\ Len(sheet) = 2
    /\ sheet[1].slots[10] = DL_WedMonMon
    /\ sheet[1].avail["availability_wed"][2] = "1"
    /\ sheet[2].slots[2] = DL_MonWed
    /\ sheet[2].avail["availability_mon"][3] = "1"

-----------------------------------------------------------------------------
(* Properties of the row validators.                                       *)

\* the values that count as missing, listed by hand: an absent key, null, and
\* the texts that are empty or whitespace only
MissingValues == {Absent, None, Str(<<>>), Str(<<" ">>)}

\* the role texts that equal "NC" up to case, and those that do so once
\* surrounding whitespace is removed
NcTexts == {Str(<<"N", "C">>), Str(<<"n", "c">>), Str(<<"N", "c">>), Str(<<"n", "C">>)}
NcPaddedTexts == NcTexts \cup {Str(<<" ", "N", "c", " ">>)}

\* the required columns whose value is missing, in declaration order
RECURSIVE ExpectedMissing(_, _)
ExpectedMissing(row, cols) ==
    IF cols = <<>> THEN <<>>
    ELSE (IF row.cols[Head(cols)] \in MissingValues THEN <<Head(cols)>> ELSE <<>>)
         \o ExpectedMissing(row, Tail(cols))

RequiredInOrder == <<"Name", "Email", "Current Role", "NetID", "Major">>

\* "Missing required columns: " followed by the comma-joined names
MissingReason(names) ==
    Reason("Missing required columns: ",
           [i \in 1..(2 * Len(names) - 1) |->
               IF i % 2 = 1 THEN names[(i + 1) \div 2] ELSE ", "],
           None)

Validated == pipeline = "validator" /\ pc # "idle"
WasValid == valid_rows # <<>>

\* a validated person row: invalid iff a required field is missing or (with the
\* role constraint) the role is not one of `nc`; all missing fields are named
PersonRule(nc) ==
    LET row == sheet[1]
        missing == ExpectedMissing(row, RequiredInOrder)
        roleOk == pc = "roster" \/ row.cols["Current Role"] \in nc
    IN  /\ WasValid <=> (missing = <<>> /\ roleOk)
        /\ missing # <<>> => invalid = <<MissingReason(missing)>>
        /\ missing = <<>> /\ ~roleOk =>
              invalid = <<Reason("Current Role is not 'NC' (value: '", <<>>,
                                 Get(row.cols["Current Role"]))>>

-----------------------------------------------------------------------------
(* Properties of the batch loops.                                          *)

\* the natural keys present in the tables of the last commit
CommittedKeys ==
    IF pipeline = "projects"
    THEN {committed.projects[i]["project_name"] : i \in DOMAIN committed.projects}
    ELSE {committed.users[u].email : u \in DOMAIN committed.users}

\* C1: after the final commit of a batch, every row of the batch that was
\* processed without an exception is in the store, whatever happened to the
\* rows after it.
C1_RowFailureIsolation ==
    (pipeline \in {"projects", "roster"} /\ pc = "done") => okKeys \subseteq CommittedKeys

\* C2: a person row whose email was resolved without an exception before, in
\* this batch or in an earlier run, takes the update path, and no duplicate
\* conflict is raised for it.
C2_PersonUpsertIdempotent ==
    [][(RosterProcessRow /\ valid_rows[done + 1].cols["Email"] \in everOk)
          => (last'.outcome = "update" /\ last'.exc.type # "DataConflictError")]_vars

-----------------------------------------------------------------------------
(* Properties of the person upsert.                                        *)

\* a row of the roster loop was processed without an exception
RosterRowDone == RosterProcessRow /\ last'.exc = NoExc

\* the person the processed row was matched to or created as
PersonOf(row) == CHOOSE u \in DOMAIN users' : users'[u].email = row.cols["Email"]

\* the coercion written out by hand for the cell values of the sheets
ExpectedBoolean(v) ==
    IF v \in {Str(<<" ", "Y", "e", "s", " ">>), Str(<<"y", "e", "s">>),
              Str(<<"t", "r", "u", "e">>), Str(<<"1">>), PyTrue}
    THEN PyTrue ELSE PyFalse

\* C11: after a row is inserted or updated, the stored citizenship flag of the
\* person and the stored pre-finals flag of the profile are the coerced values
\* of the row's cells.
C11_BooleanCoercion ==
    [][RosterRowDone =>
          LET row == valid_rows[done + 1]
              u == PersonOf(row)
              citizen == row.cols["US Citizen"]
              finals == row.cols["Week Before Finals Availability"]
          IN  /\ Has(citizen) => users'[u].us_citizen = ExpectedBoolean(citizen)
              /\ Has(finals) =>
                    consultants'[u].week_before_finals_availability = ExpectedBoolean(finals)]_vars

\* the sheet cells of the person-entity columns other than the email
PersonCells == [name |-> "Name", us_citizen |-> "US Citizen", curr_role |-> "Current Role",
                netid |-> "NetID"]

\* a row took the update path and raised nothing
RosterRowUpdated == RosterRowDone /\ last'.outcome = "update"

\* C12: on the update path the UPDATE of the person names every person column
\* present in the row except email, the columns hold the row's values
\* afterwards, and no person's stored email changes.
C12_EmailFrozenOnUpdate ==
    [][RosterRowUpdated =>
          LET row == valid_rows[done + 1]
              u == PersonOf(row)
              present == {c \in DOMAIN PersonCells : row.cols[PersonCells[c]] # Absent}
          IN  /\ last'.setCols = present
              /\ \A c \in present \ {"us_citizen"} :
                    users'[u][c] = row.cols[PersonCells[c]]
              /\ DOMAIN users' = DOMAIN users
              /\ \A w \in DOMAIN users : users'[w].email = users[w].email]_vars

\* a person created as x was updated by a later row of the same email: the name
\* is now y, the email is still a
C12_Witness ==
    /\ pipeline = "roster"
    /\ last.outcome = "update" /\ last.exc = NoExc
    /\ last.setCols = {"name", "us_citizen", "curr_role", "netid"}
    /\ \E u \in DOMAIN users : users[u].email = EmailA /\ users[u].name = NameY
    /\ \E u \in DOMAIN committed.users :
          committed.users[u].email = EmailA /\ committed.users[u].name = NameX

-----------------------------------------------------------------------------
(* Properties of a run as a whole.                                         *)

\* C13: the summary of a completed batch carries the counts of valid and
\* invalid rows and the counts of created, updated, unchanged and failed rows;
\* the four add up to the valid rows, and a batch whose last row failed reports
\* at least one failed row.
C13_OutcomeReport ==
    (pipeline \in {"projects", "roster"} /\ pc = "done") =>
       /\ output.kind = "summary"
       /\ output.valid_rows = Len(valid_rows)
       /\ output.invalid_rows = Len(invalid)
       /\ {"created", "updated", "unchanged", "failed"} \subseteq DOMAIN output
       /\ output.created + output.updated + output.unchanged + output.failed
             = Len(valid_rows)
       /\ (last.exc # NoExc => output.failed >= 1)

\* C14: a roster run over a non-empty feed is aborted only at the connection,
\* that is after every row was classified as valid or invalid; no single row
\* ends the run.
C14_RowErrorsDoNotAbort ==
    (pipeline = "roster" /\ pc = "aborted" /\ sheet # <<>>) =>
       /\ Len(valid_rows) + Len(invalid) = Len(sheet)
       /\ output = ConnectError

\* C15: a run whose feed delivered no row is aborted with a feed error, printed
\* as a failure line; nothing was encoded or validated, no row was processed
\* and the tables are those of the last commit.
C15_EmptyBatchFailsFast ==
    (pipeline \in {"projects", "roster"} /\ pc # "idle" /\ sheet = <<>>) =>
       /\ pc = "aborted"
       /\ output \in FeedErrors \cup {Fatal("SheetReadError", "E005", "no data")}
       /\ valid_rows = <<>> /\ invalid = <<>>
       /\ last = NoLast
       /\ Tables = committed

\* the second run of the roster script found an empty sheet: fatal 'no data',
\* and the person committed by the first run is untouched
C15_Witness ==
    /\ pipeline = "roster"
    /\ run = 2 /\ pc = "aborted" /\ sheet = <<>>
    /\ output = Fatal("SheetReadError", "E005", "no data")
    /\ committed.users # <<>> /\ users = committed.users

\* C16: inserting a person whose email is already stored raises
\* DataConflictError (E001); that person's row is unchanged afterwards and the
\* loop goes on.  No other failure is reported as a conflict.
C16_ConflictReporting ==
    [][RosterProcessRow =>
          LET row == valid_rows[done + 1]
              holders == {u \in DOMAIN users : users[u].email = row.cols["Email"]}
          IN  /\ (pipeline = "new-consultant" /\ holders # {}) =>
                    /\ last'.exc.type = "DataConflictError" /\ last'.exc.code = "E001"
                    /\ \A u \in holders : u \in DOMAIN users' /\ users'[u] = users[u]
                    /\ done' = done + 1 /\ pc' = "loop"
              /\ last'.exc.type = "DataConflictError" => holders # {}]_vars

-----------------------------------------------------------------------------
(* Invariants of the project tables.                                       *)

\* the tables of the open transaction and those of the last commit
BothTables == {Tables, committed}

\* C17: no two rows of the link table carry the same project, person and role.
C17_LinkUniqueness ==
    pipeline = "projects" =>
       \A tb \in BothTables :
          \A i, j \in DOMAIN tb.links : tb.links[i] = tb.links[j] => i = j

\* C18: no two stored projects have the same name, and each of the five role
\* columns of every project is null or the identifier of a stored person.
C18_ProjectInvariants ==
    pipeline = "projects" =>
       \A tb \in BothTables :
          /\ \A p, q \in DOMAIN tb.projects :
                tb.projects[p].project_name = tb.projects[q].project_name => p = q
          /\ \A p \in DOMAIN tb.projects :
                \A c \in {"em_id", "sm_id", "pm_id", "sc1_id", "sc2_id"} :
                   tb.projects[p][c] = NoId \/ tb.projects[p][c] \in DOMAIN tb.users

\* two rows for project P in one batch: the second was applied to the row the
\* first created; P is stored once, with filled and empty role columns
C18_Witness ==
    /\ pipeline = "projects" /\ pc = "loop" /\ done = 2
    /\ valid_rows[1]["project_name"] = ProjP /\ valid_rows[2]["project_name"] = ProjP
    /\ last.outcome \in {"updated", "unchanged"} /\ last.exc = NoExc
    /\ \E p \in DOMAIN projects :
          /\ projects[p].project_name = ProjP
          /\ projects[p].em_id # NoId /\ projects[p].pm_id = NoId
    /\ committed.projects = <<>>

\* the slots of the row that name person u
SlotsOf(row, u) == {i \in 1..Len(Slots) : Ident(row[Slots[i].key]) = u}

\* the persons the row names
Named(row) == {Ident(row[Slots[i].key]) : i \in 1..Len(Slots)} \ {NoId}

\* the label of the last slot that names u
LastLabel(row, u) ==
    RoleText(Slots[CHOOSE i \in SlotsOf(row, u) : \A j \in SlotsOf(row, u) : j <= i].role)

\* the number of entries of seq equal to x
Count(seq, x) == Cardinality({i \in 1..Len(seq) : seq[i] = x})

\* C19: after a project row is processed without an exception, a blank role
\* value has given a null identifier, a non-blank one the identifier of the
\* person with that netid; every named person carries the label of the slot
\* and was written only if the label differed before; nobody else is touched.
C19_RoleResolution ==
    [][(ProjRowStep /\ last'.exc = NoExc) =>
          LET row == valid_rows[done + 1]
              p == CHOOSE q \in DOMAIN projects' :
                      projects'[q].project_name = row["project_name"]
          IN  /\ \A i \in 1..Len(Slots) :
                    /\ Falsy(row[Slots[i].key]) => projects'[p][Slots[i].col] = NoId
                    /\ ~Falsy(row[Slots[i].key]) =>
                          /\ projects'[p][Slots[i].col] \in DOMAIN users
                          /\ users[projects'[p][Slots[i].col]].netid = row[Slots[i].key]
              /\ \A u \in DOMAIN users :
                    users'[u] = IF u \in Named(row)
                                THEN [users[u] EXCEPT !.curr_role = LastLabel(row, u)]
                                ELSE users[u]
              /\ Count(last'.writes, "users")
                    = Cardinality({u \in Named(row) : users[u].curr_role # LastLabel(row, u)})]_vars

\* project Q was created from a row with a blank EM value: the EM column is
\* null, persons 1 and 3 got the labels SM and PM, person 2 was SC already,
\* hence two writes to users
C19_Witness ==
    /\ pipeline = "projects" /\ last.outcome = "created"
    /\ last.row["project_name"] = ProjQ
    /\ \E p \in DOMAIN projects :
          /\ projects[p].project_name = ProjQ
          /\ projects[p].em_id = NoId /\ projects[p].sm_id = 1 /\ projects[p].sc2_id = 2
    /\ users[1].curr_role = RoleText("SM") /\ users[3].curr_role = RoleText("PM")
    /\ committed.users[1].curr_role = RoleText("NC")
    /\ Count(last.writes, "users") = 2

\* the profile columns and their sheet cells
ProfileCells == [major |-> "Major", semesters_in_ibc |-> "Semesters in IBC",
                 status |-> "Status",
                 week_before_finals_availability |-> "Week Before Finals Availability"]

\* the value stored for a cell: null for the empty string
Stores(v) == IF v = Str(<<>>) THEN None ELSE v

\* C20: on the update path, an existing profile is overwritten by one UPDATE
\* with the row's profile columns and availability strings (the columns the row
\* lacks keep their values); a missing profile is created by one INSERT; in
\* both cases no other profile changes.
C20_ProfileOnUpdatePath ==
    [][RosterRowUpdated =>
          LET row == valid_rows[done + 1]
              u == PersonOf(row)
              had == u \in DOMAIN consultants
          IN  /\ DOMAIN consultants' = DOMAIN consultants \cup {u}
              /\ \A w \in DOMAIN consultants : w # u => consultants'[w] = consultants[w]
              /\ consultants'[u].avail = row.avail
              /\ \A c \in DOMAIN ProfileCells :
                    consultants'[u][c] =
                       IF row.cols[ProfileCells[c]] # Absent
                       THEN Stores(row.cols[ProfileCells[c]])
                       ELSE IF had THEN consultants[u][c] ELSE None
              /\ Count(last'.writes, "UPDATE consultants") = (IF had THEN 1 ELSE 0)
              /\ Count(last'.writes, "INSERT consultants") = (IF had THEN 0 ELSE 1)]_vars

\* the profile created by the first row for email a was overwritten by the
\* second: status and availability are those of the second row
C20_Witness ==
    /\ pipeline = "roster" /\ pc = "loop" /\ done = 2
    /\ last.outcome = "update" /\ last.exc = NoExc
    /\ last.writes = <<"UPDATE users", "UPDATE consultants">>
    /\ valid_rows[1].cols["Status"] = StatusNew
    /\ \E u \in DOMAIN consultants :
          /\ users[u].email = EmailA
          /\ consultants[u].status = Returning
          /\ consultants[u].avail = valid_rows[2].avail
          /\ consultants[u].avail # valid_rows[1].avail

-----------------------------------------------------------------------------
(* Properties of the order of the stages.                                  *)

\* the row has a slot cell the encoder cannot read
BadSlotCell(row) == \E n \in DOMAIN row.slots : row.slots[n].k = "num"

\* the row has every required field
HasRequired(row) == ExpectedMissing(row, RequiredInOrder) = <<>>

NoRowRejected ==
    \A i \in DOMAIN valid_rows :
       valid_rows[i].cols["Semesters in IBC"] \in {Str(<<"1">>), Str(<<"2">>)}

\* the last valid row of the batch with the email of row i
LastWith(i) ==
    CHOOSE k \in DOMAIN valid_rows :
       /\ valid_rows[k].cols["Email"] = valid_rows[i].cols["Email"]
       /\ \A j \in DOMAIN valid_rows :
             valid_rows[j].cols["Email"] = valid_rows[i].cols["Email"] => j <= k

\* C22: after the commit of a batch none of whose rows failed, each email of
\* the batch belongs to exactly one person, whose person columns (email aside)
\* and profile columns hold the values of the last row with that email.
C22_LastRowWins ==
    (pipeline = "roster" /\ pc = "done" /\ NoRowRejected) =>
       \A i \in DOMAIN valid_rows :
          LET row == valid_rows[LastWith(i)]
              holders == {u \in DOMAIN committed.users :
                             committed.users[u].email = row.cols["Email"]}
          IN  /\ Cardinality(holders) = 1
              /\ \A u \in holders :
                    /\ u \in DOMAIN committed.consultants
                    /\ \A c \in DOMAIN PersonCells \ {"us_citizen"} :
                          Has(row.cols[PersonCells[c]]) =>
                             committed.users[u][c] = Stores(row.cols[PersonCells[c]])
                    /\ Has(row.cols["US Citizen"]) =>
                          committed.users[u].us_citizen = ExpectedBoolean(row.cols["US Citizen"])
                    /\ \A c \in DOMAIN ProfileCells :
                          Has(row.cols[ProfileCells[c]]) =>
                             committed.consultants[u][c] = Stores(row.cols[ProfileCells[c]])
                    /\ committed.consultants[u].avail = row.avail

\* a committed batch of two rows for email a, named x then y: the one person
\* with email a is named y
C22_Witness ==
    /\ pipeline = "roster" /\ pc = "done" /\ Len(valid_rows) = 2
    /\ valid_rows[1].cols["Email"] = EmailA /\ valid_rows[2].cols["Email"] = EmailA
    /\ valid_rows[1].cols["Name"] = NameX /\ valid_rows[2].cols["Name"] = NameY
    /\ \E u \in DOMAIN committed.users :
          /\ committed.users[u].email = EmailA
          /\ committed.users[u].name = NameY
          /\ committed.consultants[u].status = Returning

-----------------------------------------------------------------------------
(* Properties of the end-of-semester update.                               *)

\* the number a stored semester count denotes
CountOf(v) == ToInt(v.s)

\* C23: a run either commits the update of every profile (status 'Deferred',
\* semester count one higher than before the run) or leaves every profile as it
\* was; the script changes no other table.
C23_EndOfSemesterAllOrNothing ==
    [][pipeline = "end-semester" =>
          /\ users' = users /\ projects' = projects /\ links' = links
          /\ committed'.users = committed.users
          /\ committed'.projects = committed.projects
          /\ committed'.links = committed.links
          /\ \/ committed'.consultants = committed.consultants
             \/ /\ DOMAIN committed'.consultants = DOMAIN committed.consultants
                /\ \A u \in DOMAIN committed.consultants :
                      /\ committed'.consultants[u].status = Deferred
                      /\ committed.consultants[u].semesters_in_ibc.k # "none"
                      /\ committed'.consultants[u].semesters_in_ibc.k = "num"
                      /\ CountOf(committed'.consultants[u].semesters_in_ibc)
                            = CountOf(committed.consultants[u].semesters_in_ibc) + 1]_vars

-----------------------------------------------------------------------------
(* Person and profile pairing in the person scripts.                       *)

\* the commit step of a staffing-roster batch
RosterCommitStep == pipeline = "roster" /\ pc = "loop" /\ pc' = "done"

\* the persons, and the profiles, the committed state gains or sees changed
PersonsWritten ==
    {u \in DOMAIN committed'.users :
        u \notin DOMAIN committed.users \/ committed'.users[u] # committed.users[u]}

ProfilesWritten ==
    {u \in DOMAIN committed'.consultants :
        u \notin DOMAIN committed.consultants
        \/ committed'.consultants[u] # committed.consultants[u]}

\* C24: at the final commit of a staffing-roster batch every person the batch
\* created or changed has its consultant profile, every profile the batch wrote
\* belongs to a stored person, and the person of a last row that succeeded has
\* a profile, whatever rows failed before.
C24_PersonProfilePairing ==
    [][RosterCommitStep =>
          /\ \A u \in PersonsWritten : u \in DOMAIN committed'.consultants
          /\ \A u \in ProfilesWritten : u \in DOMAIN committed'.users
          /\ (done > 0 /\ last.exc = NoExc) =>
                \E u \in DOMAIN committed'.users :
                   /\ committed'.users[u].email = Get(last.row.cols["Email"])
                   /\ u \in DOMAIN committed'.consultants]_vars

\* a batch whose first row fails in the profile insert, after its person
\* insert, and whose second row is inserted and committed with its profile
C24_Witness ==
    /\ pipeline = "roster" /\ pc = "done"
    /\ Len(valid_rows) = 2
    /\ valid_rows[1].cols["Semesters in IBC"] = SemAbc
    /\ last.exc = NoExc /\ last.outcome = "insert"
    /\ userSeq = 2
    /\ DOMAIN committed.users = {2}
    /\ DOMAIN committed.consultants = {2}

-----------------------------------------------------------------------------
(* The insert-versus-update decision of the staffing-roster script.        *)

\* C25: a valid row takes the update path exactly when a person with its email
\* is stored at the time of the lookup, whatever that person's identifier, and
\* no two stored persons ever share an email.
C25_InsertVersusUpdate ==
    [][(pipeline = "roster" /\ pc = "loop" /\ done' = done + 1) =>
          /\ (last'.outcome = "update") <=>
                (\E u \in DOMAIN users :
                    users[u].email = Get(valid_rows[done + 1].cols["Email"]))
          /\ \A u, w \in DOMAIN users' :
                users'[u].email = users'[w].email => u = w]_vars

====
